---- MODULE Spec2Model ----
(***************************************************************************)
(* A model of lighthouse-core/runner.js: Runner.run, Runner._runAudits and *)
(* Runner._runAudit.  One run of the orchestrator is one behaviour: the    *)
(* configuration and the persisted artifacts are chosen in Init, and every *)
(* answer of an external collaborator (collection driver, persistence,     *)
(* the audits' own scoring logic, the report pipeline) is chosen when the  *)
(* run reaches the call.                                                   *)
(***************************************************************************)
EXTENDS Naturals, Sequences, FiniteSets

VARIABLES
  settings,      \* runOpts.config.settings
  url,           \* runOpts.url
  config,        \* runOpts.config: audits and passes
  disk,          \* the artifacts persisted at Runner._getArtifactsPath(settings)
  pc,            \* position of Runner.run
  artifacts,     \* the local `artifacts` of Runner.run
  requestedUrl,  \* the local `requestedUrl` of Runner.run
  auditResults,  \* the local `auditResults` of Runner._runAudits
  err,           \* the error caught by the try/catch of Runner.run
  returned,      \* what Runner.run gave its caller
  calls,         \* calls made to collaborators so far, in order
  lighthouseRunWarnings,  \* the array `lighthouseRunWarnings` of Runner.run
  computedCache, \* the Map `computedCache` of sharedAuditContext: its keys
  running,       \* the audits whose audit.audit() promise has not settled
  history        \* the audit results of the earlier runs of this process

vars == <<settings, url, config, disk, pc, artifacts, requestedUrl,
          auditResults, err, returned, calls,
          lighthouseRunWarnings, computedCache, running, history>>

\* What the audit phase adds to the state of a run.
contextVars == <<lighthouseRunWarnings, computedCache, running, history>>

\* The greatest number of audits in config.audits.
MaxAudits == 2

-----------------------------------------------------------------------------
(* Values *)

\* A JavaScript value that may be null/undefined: <<>> or <<v>>.
None == <<>>
Some(v) == <<v>>
Get(o) == o[1]

Range(s) == {s[i] : i \in 1..Len(s)}

\* Strings that matter are sequences of tokens, so that "contains" and
\* canonicalisation are computed and not assumed.
Contains(msg, part) ==
  /\ part # <<>>
  /\ \E i \in 1..Len(msg) :
       /\ i + Len(part) - 1 <= Len(msg)
       /\ SubSeq(msg, i, i + Len(part) - 1) = part

\* ---- URLs: origin, then optionally the path "/", then optionally a fragment.
Origins == {"https://example.com", "https://other.com"}
Fragment == "#frag"

UrlUndefined == [type |-> "undefined", s |-> <<>>]
UrlString(s) == [type |-> "string", s |-> s]

UrlInputs ==
  { UrlUndefined,
    UrlString(<<>>),
    UrlString(<<"not a url">>),
    UrlString(<<"https://example.com">>),
    UrlString(<<"https://example.com", "/", Fragment>>),
    UrlString(<<"https://other.com", "/">>) }

\* Does `new URL(s)` succeed.
UrlParses(s) == Len(s) >= 1 /\ s[1] \in Origins

UrlHash(s) == IF Len(s) >= 2 /\ s[Len(s)] = Fragment THEN <<Fragment>> ELSE <<>>

\* UrlHref without the canonicalisation: the input string as given.
UrlHref_Raw(s) == s

\* new URL(s).href: the canonical form always has the path.
UrlHref(s) == <<s[1], "/">> \o UrlHash(s)

\* url.hash = '': the href without its fragment.
WithoutHash(h) == IF UrlHash(h) = <<>> THEN h ELSE SubSeq(h, 1, Len(h) - 1)

\* url-shim.js URL.equalWithExcludedFragments: both parsed, hashes cleared,
\* hrefs compared; false when either does not parse.
EqualWithExcludedFragments(s1, s2) ==
  /\ UrlParses(s1)
  /\ UrlParses(s2)
  /\ WithoutHash(UrlHref(s1)) = WithoutHash(UrlHref(s2))

\* ---- Settings
BaseSettings(g, a) ==
  [gatherMode |-> g, auditMode |-> a, locale |-> "en-US", output |-> "json",
   budgets |-> "none", throttlingMethod |-> "simulate"]

\* The settings an artifact set may embed, relative to the settings `s` of this
\* run: none, the same, those of an earlier gather-only run in another locale,
\* and settings with another throttling method.
EmbeddedSettings(s) ==
  { None,
    Some(s),
    Some([s EXCEPT !.gatherMode = TRUE, !.auditMode = FALSE, !.locale = "de"]),
    Some([s EXCEPT !.throttlingMethod = "devtools"]) }

\* NormalizedSettings with `budgets` left out of the overrides.
NormalizedSettings_KeepBudgets(s) ==
  [s EXCEPT !.locale = "undefined", !.gatherMode = "undefined",
            !.auditMode = "undefined", !.output = "undefined"]

\* Object.assign({}, s, overrides)
NormalizedSettings(s) ==
  [s EXCEPT !.locale = "undefined", !.gatherMode = "undefined",
            !.auditMode = "undefined", !.output = "undefined",
            !.budgets = "undefined"]

\* ---- Artifacts
ArtifactNames == {"DOM", "traces"}

ArtUndefined == [kind |-> "undefined", defaultPass |-> FALSE, message |-> <<>>]
ArtValue(dp) == [kind |-> "value", defaultPass |-> dp, message |-> <<>>]
ArtError(m)  == [kind |-> "error", defaultPass |-> FALSE, message |-> m]

DomValues == {ArtUndefined, ArtValue(FALSE), ArtError(<<"DOM.getDocument timed out">>)}
TraceValues == {ArtUndefined, ArtValue(TRUE), ArtValue(FALSE),
                ArtError(<<"Tracing.end failed">>)}

\* The artifact sets with URL.requestedUrl = r.
ArtifactSets(r, s) ==
  { [DOM |-> d, traces |-> t, URL |-> [requestedUrl |-> r, finalUrl |-> r],
     settings |-> e] :
      d \in DomValues, t \in TraceValues, e \in EmbeddedSettings(s) }

PersistedUrls == {<<>>, <<"https://example.com", "/">>}

\* ---- Audit definitions
AuditDefn(id, req) == [id |-> id, requiredArtifacts |-> req]

AuditPool ==
  { AuditDefn("no-artifacts", <<>>),
    AuditDefn("dom-size", <<"DOM">>),
    AuditDefn("first-paint", <<"traces">>),
    AuditDefn("trace-then-dom", <<"traces", "DOM">>) }

\* The sequences of at most n distinct elements of S.
RECURSIVE DistinctSeqs(_, _)
DistinctSeqs(S, n) ==
  IF n = 0 THEN {<<>>}
  ELSE LET shorter == DistinctSeqs(S, n - 1)
       IN shorter \cup
          { Append(x[1], x[2]) :
              x \in {y \in shorter \X S : Len(y[1]) = n - 1 /\ y[2] \notin Range(y[1])} }

AuditLists == DistinctSeqs(AuditPool, MaxAudits)

\* ---- Errors
Error(m) == [message |-> m, friendlyMessage |-> <<>>]
FriendlyError(m, f) == [message |-> m, friendlyMessage |-> f]
NoError == Error(<<>>)

MsgEmptyUrl == <<"Cannot run audit mode on empty URL">>
MsgDifferentUrl == <<"Cannot run audit mode on different URL">>
MsgNoUrl == <<"You must provide a url to the runner.">>
MsgBadUrl == <<"The url provided should have a proper protocol and hostname.">>
MsgNoPasses == <<"No browser artifacts are either provided or requested.">>
MsgNoAudits == <<"No audits to evaluate.">>
MsgSettingsChanged == <<"Cannot change settings between gathering and auditing">>
MsgLoadFailed == <<"loadArtifacts failed">>
MsgSaveFailed == <<"saveArtifacts failed">>
MsgDriverFailed == <<"GatherRunner.run failed">>
MsgReportFailed == <<"result assembly failed">>

\* What the audits' own scoring logic may throw.
AuditThrows ==
  { Error(<<"audit crashed">>),
    FriendlyError(<<"NO_FCP">>, <<"The page did not paint any content">>) }

-----------------------------------------------------------------------------
(* Initial state *)

AnalyzeOnly == settings.auditMode /\ ~settings.gatherMode
CollectOnly == settings.gatherMode /\ ~settings.auditMode

Init ==
  /\ settings \in {BaseSettings(g, a) : g \in BOOLEAN, a \in BOOLEAN}
  /\ url \in UrlInputs
  /\ config \in [audits : {None} \cup {Some(l) : l \in AuditLists},
                 passes : BOOLEAN]
  /\ disk \in IF AnalyzeOnly
              THEN {None} \cup
                   {Some(a) : a \in UNION {ArtifactSets(r, settings) : r \in PersistedUrls}}
              ELSE {None}
  /\ pc = "start"
  /\ artifacts = None
  /\ requestedUrl = <<>>
  /\ auditResults = <<>>
  /\ err = NoError
  /\ returned = [kind |-> "pending"]
  /\ calls = <<>>
  /\ lighthouseRunWarnings = <<>>
  /\ computedCache = {}
  /\ running = {}
  /\ history = <<>>

-----------------------------------------------------------------------------
(* Calls to collaborators, as recorded in `calls` *)

CallLoad == [op |-> "assetSaver.loadArtifacts"]
CallSave == [op |-> "assetSaver.saveArtifacts"]
CallGather(r) == [op |-> "GatherRunner.run", requestedUrl |-> r]
CallLogTimeAuditing == [op |-> "log.time", id |-> "lh:runner:auditing"]
CallIsDeepEqual == [op |-> "isDeepEqual"]
CallAudit(id, view, e) ==
  [op |-> "audit.audit", audit |-> id, view |-> view, threw |-> e # NoError, error |-> e]
CallSentry(level, tag) == [op |-> "Sentry.captureException", level |-> level, tag |-> tag]
CallGenerateReport == [op |-> "generateReport"]

CallsOf(op) == {i \in 1..Len(calls) : calls[i].op = op}
FatalReports == {i \in CallsOf("Sentry.captureException") : calls[i].level = "fatal"}

\* `throw e` inside the try block of Runner.run.
Throw(e) ==
  /\ pc' = "catch"
  /\ err' = e

-----------------------------------------------------------------------------
(* Gather phase *)

\* UrlMismatch with a plain string comparison.
UrlMismatch_Strict(u, r) ==
  /\ u.type = "string"
  /\ u.s # <<>>
  /\ u.s # r

\* runOpts.url && !URL.equalWithExcludedFragments(runOpts.url, requestedUrl)
UrlMismatch(u, r) ==
  /\ u.type = "string"
  /\ u.s # <<>>
  /\ ~EqualWithExcludedFragments(u.s, r)

\* typeof runOpts.url !== 'string' || runOpts.url.length === 0
UrlMissing(u) == u.type # "string" \/ Len(u.s) = 0

\* The analyze-only branch: the artifacts come from disk.
LoadArtifacts ==
  /\ pc = "start"
  /\ AnalyzeOnly
  /\ calls' = Append(calls, CallLoad)
  /\ IF disk = None
     THEN /\ Throw(Error(MsgLoadFailed))
          /\ UNCHANGED <<artifacts, requestedUrl>>
     ELSE /\ artifacts' = disk
          /\ requestedUrl' = Get(disk).URL.requestedUrl
          /\ IF requestedUrl' = <<>>
             THEN Throw(Error(MsgEmptyUrl))
             ELSE IF UrlMismatch(url, requestedUrl')
                  THEN Throw(Error(MsgDifferentUrl))
                  ELSE pc' = "gathered" /\ UNCHANGED err
  /\ UNCHANGED <<contextVars, settings, url, config, disk, auditResults, returned>>

\* A run that never saves what it collected.
AfterCollection_NeverSave == "gathered"

\* A run that saves what it collected only when it is collect-only.
AfterCollection_SaveOnlyCollectOnly == IF CollectOnly THEN "collected" ELSE "gathered"

\* if (settings.gatherMode) {...saveArtifacts...}: where a run goes once the
\* driver has returned the artifacts
AfterCollection == IF settings.gatherMode THEN "collected" ELSE "gathered"

\* The other branch, up to the end of Runner._gatherArtifactsFromBrowser.
GatherArtifactsFromBrowser ==
  /\ pc = "start"
  /\ ~AnalyzeOnly
  /\ IF UrlMissing(url)
     THEN /\ Throw(Error(MsgNoUrl))
          /\ UNCHANGED <<artifacts, requestedUrl, calls>>
     ELSE IF ~UrlParses(url.s)
     THEN /\ Throw(Error(MsgBadUrl))
          /\ UNCHANGED <<artifacts, requestedUrl, calls>>
     ELSE /\ requestedUrl' = UrlHref(url.s)
          /\ IF ~config.passes
             THEN /\ Throw(Error(MsgNoPasses))
                  /\ UNCHANGED <<artifacts, calls>>
             ELSE /\ calls' = Append(calls, CallGather(requestedUrl'))
                  /\ \/ /\ Throw(Error(MsgDriverFailed))
                        /\ UNCHANGED artifacts
                     \/ /\ artifacts' \in
                             {Some(a) : a \in ArtifactSets(requestedUrl', settings)}
                        /\ pc' = AfterCollection
                        /\ UNCHANGED err
  /\ UNCHANGED <<contextVars, settings, url, config, disk, auditResults, returned>>

\* -G: await assetSaver.saveArtifacts(artifacts, path)
SaveArtifacts ==
  /\ pc = "collected"
  /\ settings.gatherMode
  /\ calls' = Append(calls, CallSave)
  /\ \/ /\ disk' = artifacts
        /\ pc' = "gathered"
        /\ UNCHANGED err
     \/ /\ Throw(Error(MsgSaveFailed))
        /\ UNCHANGED disk
  /\ UNCHANGED <<contextVars, settings, url, config, artifacts, requestedUrl, auditResults, returned>>

\* if (settings.gatherMode && !settings.auditMode) return;
QuitEarly ==
  /\ pc = "gathered"
  /\ CollectOnly
  /\ returned' = [kind |-> "undefined"]
  /\ pc' = "returned"
  /\ UNCHANGED <<contextVars, settings, url, config, disk, artifacts, requestedUrl,
                 auditResults, err, calls>>

-----------------------------------------------------------------------------
(* Audit phase *)

\* !isDeepEqual(normalizedGatherSettings, normalizedAuditSettings)
SettingsChanged(gatherSettings, auditSettings) ==
  NormalizedSettings(gatherSettings) # NormalizedSettings(auditSettings)

\* SettingsAreCompared for artifacts that were loaded only.
SettingsAreCompared_LoadedOnly(a) == a.settings # None /\ AnalyzeOnly

\* if (artifacts.settings): is the comparison made at all.
SettingsAreCompared(a) == a.settings # None

\* A computedCache that outlives the run that created it.
FreshComputedCache_Leftover == computedCache

\* computedCache: new Map(), in the sharedAuditContext of _runAudits
FreshComputedCache == {}

\* EnterAuditPhase with the settings compared only after the first audit ran.
EnterAuditPhase_LateCheck ==
  /\ pc = "gathered"
  /\ ~CollectOnly
  /\ IF config.audits = None
     THEN /\ Throw(Error(MsgNoAudits))
          /\ UNCHANGED calls
     ELSE IF /\ SettingsAreCompared(Get(artifacts))
             /\ SettingsChanged(Get(Get(artifacts).settings), settings)
     THEN /\ calls' = calls \o <<CallLogTimeAuditing>> \o
                      (IF Get(config.audits) = <<>> THEN <<>>
                       ELSE <<CallAudit(Get(config.audits)[1].id, <<>>, NoError)>>) \o
                      <<CallIsDeepEqual>>
          /\ Throw(Error(MsgSettingsChanged))
     ELSE /\ calls' = calls \o <<CallLogTimeAuditing>> \o
                      (IF SettingsAreCompared(Get(artifacts))
                       THEN <<CallIsDeepEqual>> ELSE <<>>)
          /\ pc' = "auditing"
          /\ UNCHANGED err
  /\ UNCHANGED <<contextVars, settings, url, config, disk, artifacts, requestedUrl,
                 auditResults, returned>>

\* From the check of config.audits to the start of the loop of _runAudits.
EnterAuditPhase ==
  /\ pc = "gathered"
  /\ ~CollectOnly
  /\ IF config.audits = None
     THEN /\ Throw(Error(MsgNoAudits))
          /\ UNCHANGED calls
     ELSE IF SettingsAreCompared(Get(artifacts))
     THEN /\ calls' = calls \o <<CallLogTimeAuditing, CallIsDeepEqual>>
          /\ IF SettingsChanged(Get(Get(artifacts).settings), settings)
             THEN Throw(Error(MsgSettingsChanged))
             ELSE pc' = "auditing" /\ UNCHANGED err
     ELSE /\ calls' = Append(calls, CallLogTimeAuditing)
          /\ pc' = "auditing"
          /\ UNCHANGED err
  /\ computedCache' = IF pc' = "auditing" THEN FreshComputedCache ELSE computedCache
  /\ UNCHANGED <<lighthouseRunWarnings, running, history, settings, url, config, disk,
                 artifacts, requestedUrl, auditResults, returned>>

\* Audit.DEFAULT_PASS and the artifact that is checked for it.
TracesArtifact == "traces"

\* const noArtifact = artifacts[artifactName] === undefined;
NoArtifact(v) == v.kind = "undefined"

\* NoTrace without the look at the default pass.
NoTrace_Never(name, v) == FALSE

\* const noTrace = artifactName === 'traces' && !artifacts.traces[Audit.DEFAULT_PASS];
\* (an Error has no defaultPass property; evaluated only when traces is not undefined)
NoTrace(name, v) == name = TracesArtifact /\ ~v.defaultPass

MsgDidNotRun(name) == <<"Required ", name, " gatherer did not run.">>
MsgArtifactError(name, m) == <<"Required ", name, " gatherer encountered an error: ">> \o m
MsgTypeError == <<"Cannot read property 'defaultPass' of undefined">>

NoThrow == [threw |-> FALSE, error |-> NoError, calls |-> <<>>]
Thrown(e, c) == [threw |-> TRUE, error |-> e, calls |-> c]

\* The loop over audit.meta.requiredArtifacts at the top of the try block of
\* _runAudit: what it throws, if anything, and the telemetry calls it makes.
RECURSIVE RequiredArtifactsCheck(_, _)
RequiredArtifactsCheck(req, arts) ==
  IF req = <<>> THEN NoThrow
  ELSE LET name == Head(req)
           v == arts[name]
       IN IF name = TracesArtifact /\ v.kind = "undefined"
          THEN Thrown(Error(MsgTypeError), <<>>)
          ELSE IF NoArtifact(v) \/ NoTrace(name, v)
          THEN Thrown(Error(MsgDidNotRun(name)), <<>>)
          ELSE IF v.kind = "error"
          THEN Thrown(Error(MsgArtifactError(name, v.message)),
                      <<CallSentry("error", name)>>)
          ELSE RequiredArtifactsCheck(Tail(req), arts)

\* RequiredArtifactsView handing over every artifact.
RequiredArtifactsView_All(req, arts) == [n \in ArtifactNames |-> arts[n]]

\* audit.meta.requiredArtifacts.reduce(...): only the declared artifacts.
RequiredArtifactsView(req, arts) == [n \in Range(req) |-> arts[n]]

\* ErrorMessage that ignores the friendly message.
ErrorMessage_Technical(e) == e.message

\* err.friendlyMessage ? err.friendlyMessage : err.message
ErrorMessage(e) == IF e.friendlyMessage # <<>> THEN e.friendlyMessage ELSE e.message

\* Audit.generateAuditResult(audit, product)
GenerateAuditResult(auditDefn, product) ==
  [id |-> auditDefn.id, kind |-> "scored", details |-> product, errorMessage |-> <<>>]

\* Audit.generateErrorAuditResult(audit, errorMessage)
GenerateErrorAuditResult(auditDefn, errorMessage) ==
  [id |-> auditDefn.id, kind |-> "error", details |-> <<>>, errorMessage |-> errorMessage]

\* The catch block of _runAudit: telemetry, then the error result.
AuditCatch(auditDefn, e) ==
  [result |-> GenerateErrorAuditResult(auditDefn, ErrorMessage(e)),
   calls |-> <<CallSentry("error", auditDefn.id)>>]

\* NextAudit of a loop that never advances.
NextAudit_First == Get(config.audits)[1]

\* The audit the loop of _runAudits is at.
NextAudit == Get(config.audits)[Len(auditResults) + 1]

\* What the audit's scoring logic, or the result generation after it, does:
\* NoError for a product, or the error thrown.
AuditOutcomes == {NoError} \cup AuditThrows \cup {Error(<<"invalid audit product">>)}

\* One iteration of the loop of _runAudits: Runner._runAudit and the push.
RunAudit ==
  /\ pc = "auditing"
  /\ Len(auditResults) < Len(Get(config.audits))
  /\ LET auditDefn == NextAudit
         req == auditDefn.requiredArtifacts
         check == RequiredArtifactsCheck(req, Get(artifacts))
         view == RequiredArtifactsView(req, Get(artifacts))
     IN IF check.threw
        THEN LET c == AuditCatch(auditDefn, check.error)
             IN /\ calls' = calls \o check.calls \o c.calls
                /\ auditResults' = Append(auditResults, c.result)
        ELSE \E e \in AuditOutcomes :
               IF e = NoError
               THEN /\ calls' = Append(calls, CallAudit(auditDefn.id, view, e))
                    /\ auditResults' =
                         Append(auditResults, GenerateAuditResult(auditDefn, view))
               ELSE LET c == AuditCatch(auditDefn, e)
                    IN /\ calls' = Append(calls, CallAudit(auditDefn.id, view, e)) \o c.calls
                       /\ auditResults' = Append(auditResults, c.result)
  /\ UNCHANGED <<contextVars, settings, url, config, disk, pc, artifacts, requestedUrl, err, returned>>

\* The loop is over: log.timeEnd(status); return auditResults.
EndRunAudits ==
  /\ pc = "auditing"
  /\ Len(auditResults) = Len(Get(config.audits))
  /\ pc' = "assembling"
  /\ UNCHANGED <<contextVars, settings, url, config, disk, artifacts, requestedUrl,
                 auditResults, err, returned, calls>>

-----------------------------------------------------------------------------
(* Result construction and the top-level catch *)

\* for (const audit of auditResults) resultsById[audit.id] = audit;
ResultsById(results) ==
  [id \in {results[i].id : i \in 1..Len(results)} |->
     results[CHOOSE i \in 1..Len(results) :
               /\ results[i].id = id
               /\ \A j \in (i + 1)..Len(results) : results[j].id # id]]

\* if (artifacts.LighthouseRunWarnings)
\*   lighthouseRunWarnings.push(...artifacts.LighthouseRunWarnings);
MergedRunWarnings(arts, warnings) ==
  IF "LighthouseRunWarnings" \in DOMAIN arts
  THEN warnings \o arts.LighthouseRunWarnings
  ELSE warnings

\* The lhr of Runner.run, as far as the runner computes it itself.
Lhr ==
  [requestedUrl |-> requestedUrl,
   finalUrl |-> Get(artifacts).URL.finalUrl,
   runWarnings |-> MergedRunWarnings(Get(artifacts), lighthouseRunWarnings),
   audits |-> ResultsById(auditResults),
   configSettings |-> settings]

\* LHR construction, localisation, report generation, return.
Assemble ==
  /\ pc = "assembling"
  /\ \/ /\ calls' = Append(calls, CallGenerateReport)
        /\ returned' = [kind |-> "result", lhr |-> Lhr, artifacts |-> Get(artifacts)]
        /\ pc' = "returned"
        /\ UNCHANGED err
     \/ /\ Throw(Error(MsgReportFailed))
        /\ UNCHANGED <<returned, calls>>
  /\ lighthouseRunWarnings' = MergedRunWarnings(Get(artifacts), lighthouseRunWarnings)
  /\ UNCHANGED <<computedCache, running, history, settings, url, config, disk, artifacts,
                 requestedUrl, auditResults>>

\* CatchCalls of a catch block that rethrows without reporting.
CatchCalls_Silent(e) == <<>>

\* What the catch block of Runner.run reports before it rethrows.
CatchCalls(e) == <<CallSentry("fatal", "run")>>

\* catch (err) {...; await Sentry.captureException(err, {level: 'fatal'}); throw err;}
Catch ==
  /\ pc = "catch"
  /\ calls' = calls \o CatchCalls(err)
  /\ returned' = [kind |-> "raised", error |-> err]
  /\ pc' = "raised"
  /\ UNCHANGED <<contextVars, settings, url, config, disk, artifacts, requestedUrl, auditResults, err>>

Next ==
  \/ LoadArtifacts
  \/ GatherArtifactsFromBrowser
  \/ SaveArtifacts
  \/ QuitEarly
  \/ EnterAuditPhase
  \/ RunAudit
  \/ EndRunAudits
  \/ Assemble
  \/ Catch

Spec == Init /\ [][Next]_vars

-----------------------------------------------------------------------------
(* Properties *)

\* config.audits as a list (empty when not configured).
Audits == IF config.audits = None THEN <<>> ELSE Get(config.audits)

Artifact(n) == Get(artifacts)[n]

AuditCalls == CallsOf("audit.audit")

\* The calls of the scoring logic of the audit with this id.
AuditCallsOf(id) == {k \in AuditCalls : calls[k].audit = id}

\* _runAudits has returned its list.
AuditsDone == Len(auditResults) = Len(Audits)

\* No iteration of the loop of _runAudits leaves the loop by an exception.
LoopNeverThrows == [][pc = "auditing" => pc' \in {"auditing", "assembling"}]_vars

\* C1: once the settings check has passed, _runAudits returns one result per
\* configured audit, in configured order and with the audit's id, and no audit
\* (succeeding, missing an artifact, hitting an errored one, throwing) makes it
\* raise instead.
C1_ResultsMatchAudits ==
  /\ Len(auditResults) <= Len(Audits)
  /\ \A i \in 1..Len(auditResults) : auditResults[i].id = Audits[i].id
  /\ pc \in {"assembling", "returned"} /\ returned.kind # "undefined" => AuditsDone

Thm_C1 == []C1_ResultsMatchAudits /\ LoopNeverThrows

Wit_C1 ==
  /\ pc = "assembling"
  /\ Len(auditResults) = 2
  /\ auditResults[1].kind = "error"
  /\ AuditCallsOf(Audits[1].id) = {}
  /\ auditResults[2].kind = "scored"

\* An artifact the audit requires is absent: undefined, or the traces artifact
\* without its default-pass entry.
RequiredMissing(a) ==
  \E n \in Range(a.requiredArtifacts) :
    \/ Artifact(n).kind = "undefined"
    \/ n = "traces" /\ Artifact(n).kind = "value" /\ ~Artifact(n).defaultPass

\* C2: an audit with an absent required artifact is not invoked and gets an
\* error result; the loop goes on to the next audit and the list is completed.
C2_MissingIsErrorResult ==
  /\ \A i \in 1..Len(auditResults) :
       RequiredMissing(Audits[i]) =>
         /\ auditResults[i].kind = "error"
         /\ AuditCallsOf(Audits[i].id) = {}
  /\ pc = "assembling" => AuditsDone

C2_MissingDoesNotAbort ==
  [][ pc = "auditing" /\ ~AuditsDone /\ RequiredMissing(NextAudit) =>
        pc' = "auditing" /\ Len(auditResults') = Len(auditResults) + 1 ]_vars

Thm_C2 == []C2_MissingIsErrorResult /\ C2_MissingDoesNotAbort

Wit_C2 ==
  /\ Len(auditResults) = 2
  /\ Audits[1].requiredArtifacts = <<"traces">>
  /\ Artifact("traces") = ArtValue(FALSE)
  /\ auditResults[1].kind = "error"
  /\ auditResults[2].kind = "scored"

\* C3, as claimed: whenever a required artifact of an audit is an error marker,
\* the audit's result is an error result whose message contains the marker's.
Orig_C3 ==
  \A i \in 1..Len(auditResults) :
    \A n \in Range(Audits[i].requiredArtifacts) :
      Artifact(n).kind = "error" =>
        /\ auditResults[i].kind = "error"
        /\ Contains(auditResults[i].errorMessage, Artifact(n).message)

\* C4: what an audit's scoring logic (or the result generation) throws becomes
\* that audit's error result, carrying the friendly message when there is one
\* and the technical one otherwise; the loop goes on, and a run that fails
\* afterwards fails in the result construction, all audits having run.
C4_ThrowIsErrorResult ==
  /\ \A k \in AuditCalls :
       calls[k].threw =>
         \E i \in 1..Len(auditResults) :
           /\ Audits[i].id = calls[k].audit
           /\ auditResults[i].kind = "error"
           /\ auditResults[i].errorMessage =
                IF calls[k].error.friendlyMessage # <<>>
                THEN calls[k].error.friendlyMessage
                ELSE calls[k].error.message
  /\ (pc \in {"catch", "raised"} /\ \E k \in AuditCalls : calls[k].threw) =>
       AuditsDone /\ err.message = MsgReportFailed

Thm_C4 == []C4_ThrowIsErrorResult /\ LoopNeverThrows

Wit_C4 ==
  /\ returned.kind = "result"
  /\ Len(auditResults) = 2
  /\ \E k \in AuditCallsOf(Audits[1].id) :
       calls[k].threw /\ calls[k].error.friendlyMessage # <<>>
  /\ auditResults[1].errorMessage = <<"The page did not paint any content">>
  /\ auditResults[2].kind = "scored"

\* C5: a run ends by returning a result record built from the results of all
\* audits, by returning undefined (collect-only mode), or by raising; a run
\* that raises returns nothing and has reported its error as fatal exactly
\* once, last of all; no other run reports a fatal error.
Thm_C5 ==
  /\ returned.kind \in {"pending", "result", "undefined", "raised"}
  /\ returned.kind = "pending" <=> pc \notin {"returned", "raised"}
  /\ pc \notin {"returned", "raised"} => ENABLED Next
  /\ returned.kind = "result" =>
       /\ pc = "returned"
       /\ config.audits # None
       /\ AuditsDone
       /\ DOMAIN returned.lhr.audits = {Audits[i].id : i \in 1..Len(Audits)}
       /\ \A i \in 1..Len(Audits) : returned.lhr.audits[Audits[i].id] = auditResults[i]
  /\ returned.kind = "undefined" => pc = "returned" /\ CollectOnly
  /\ returned.kind = "raised" =>
       /\ pc = "raised"
       /\ Cardinality(FatalReports) = 1
       /\ Len(calls) \in FatalReports
  /\ pc # "raised" => FatalReports = {}

Wit_C5 ==
  /\ pc = "raised"
  /\ err.message = MsgReportFailed
  /\ Len(auditResults) = 2
  /\ returned.kind = "raised"

ConfigErrors ==
  {MsgNoUrl, MsgBadUrl, MsgEmptyUrl, MsgDifferentUrl, MsgNoAudits, MsgSettingsChanged}

\* C7: when a run fails with a configuration error, no audit's scoring logic
\* has been invoked and no audit result exists.
Thm_C7 ==
  (pc \in {"catch", "raised"} /\ err.message \in ConfigErrors) =>
    AuditCalls = {} /\ auditResults = <<>>

Wit_C7 ==
  /\ pc = "raised"
  /\ err.message = MsgSettingsChanged
  /\ Len(Audits) = 2
  /\ ~RequiredMissing(Audits[1])

\* The resource a URL denotes, fragment identifier aside: nothing when it does
\* not parse, else its origin (the path is "/" whether written or not).
Resource(s) == IF Len(s) >= 1 /\ s[1] \in Origins THEN <<s[1]>> ELSE <<>>

UrlSupplied == url.type = "string" /\ url.s # <<>>

SameResource(s, r) == Resource(s) # <<>> /\ Resource(s) = Resource(r)

FailedWith(m) == pc \in {"catch", "raised"} /\ err.message = m

\* C8: analyze-only, artifacts loaded with a non-empty requestedUrl: the run
\* gets past the URL check when no URL is supplied or the supplied one is the
\* persisted one up to the fragment, and fails with 'Cannot run audit mode on
\* different URL' when the supplied URL is another resource.
Thm_C8 ==
  (AnalyzeOnly /\ artifacts # None /\ Get(artifacts).URL.requestedUrl # <<>>) =>
    LET persisted == Get(artifacts).URL.requestedUrl
    IN /\ (~UrlSupplied \/ SameResource(url.s, persisted)) =>
            /\ ~FailedWith(MsgDifferentUrl)
            /\ ~FailedWith(MsgEmptyUrl)
            /\ requestedUrl = persisted
       /\ (UrlSupplied /\ ~SameResource(url.s, persisted)) =>
            FailedWith(MsgDifferentUrl)

Wit_C8 ==
  /\ AnalyzeOnly
  /\ url = UrlString(<<"https://example.com", "/", Fragment>>)
  /\ artifacts # None
  /\ requestedUrl = <<"https://example.com", "/">>
  /\ pc = "auditing"

ValidUrl == url.type = "string" /\ Resource(url.s) # <<>>

\* The canonical form of a valid input URL: origin, path, fragment if any.
Canonical(s) ==
  IF s[Len(s)] = Fragment THEN <<s[1], "/", Fragment>> ELSE <<s[1], "/">>

\* What a collect-only run does when neither collaborator fails: the driver
\* is invoked with the canonical URL, the artifacts are saved once, undefined
\* is returned; no audit phase, no result, no complaint about audits.
CollectOnlyCourse ==
  /\ pc \in {"start", "collected", "gathered", "returned", "catch", "raised"}
  /\ pc \in {"collected", "gathered", "returned"} =>
       /\ calls[1] = CallGather(Canonical(url.s))
       /\ Get(artifacts).URL.requestedUrl = Canonical(url.s)
  /\ pc = "collected" => calls = <<CallGather(Canonical(url.s))>>
  /\ pc \in {"gathered", "returned"} =>
       /\ calls = <<CallGather(Canonical(url.s)), CallSave>>
       /\ disk = artifacts
  /\ pc = "returned" => returned.kind = "undefined"
  /\ auditResults = <<>>
  /\ AuditCalls = {}
  /\ ~FailedWith(MsgNoAudits)

CollaboratorFailed == FailedWith(MsgDriverFailed) \/ FailedWith(MsgSaveFailed)

\* C9, as claimed (a failure of the driver or of persistence itself granted):
\* collect-only with a valid input URL collects, saves and returns undefined.
Orig_C9 ==
  (CollectOnly /\ ValidUrl) =>
    /\ CollectOnlyCourse
    /\ pc \in {"catch", "raised"} => CollaboratorFailed

\* C9, amended: the same, for a configuration that has passes.
Thm_C9 ==
  (CollectOnly /\ ValidUrl /\ config.passes) =>
    /\ CollectOnlyCourse
    /\ pc \in {"catch", "raised"} => CollaboratorFailed

Wit_C9 ==
  /\ CollectOnly
  /\ url = UrlString(<<"https://example.com">>)
  /\ config.audits = None
  /\ pc = "returned"
  /\ returned.kind = "undefined"

\* _runAudits has been entered.
RunAuditsEntered == CallsOf("log.time") # {}

\* C10, as claimed: the settings of the artifacts and of the run are compared
\* only in analyze-only runs.
Orig_C10 == CallsOf("isDeepEqual") # {} => AnalyzeOnly

\* C10, amended: they are compared, once, in every run that enters _runAudits
\* with artifacts that embed settings, whatever the mode, and in no other run.
Thm_C10 ==
  /\ Cardinality(CallsOf("isDeepEqual")) <= 1
  /\ CallsOf("isDeepEqual") # {} <=>
       (RunAuditsEntered /\ Get(artifacts).settings # None)
  /\ pc \in {"auditing", "assembling"} => RunAuditsEntered
  /\ FailedWith(MsgSettingsChanged) => CallsOf("isDeepEqual") # {}

Wit_C10 ==
  /\ settings.gatherMode
  /\ settings.auditMode
  /\ CallsOf("isDeepEqual") # {}
  /\ CallsOf("GatherRunner.run") # {}
  /\ pc = "auditing"

-----------------------------------------------------------------------------
(* The settings check of _runAudits on its own: a run that has its artifacts *)
(* and is about to enter the audit phase, for every pair of settings.        *)

SettingsPool ==
  { [gatherMode |-> g, auditMode |-> a, locale |-> l, output |-> o,
     budgets |-> b, throttlingMethod |-> t] :
      g \in BOOLEAN, a \in BOOLEAN, l \in {"en-US", "de"}, o \in {"json", "html"},
      b \in {"none", "budget.json"}, t \in {"simulate", "devtools"} }

SiteUrl == <<"https://example.com", "/">>

\* The calls a run has made when its gather phase is over.
GatherPhaseCalls(s) ==
  IF s.auditMode /\ ~s.gatherMode THEN <<CallLoad>>
  ELSE IF s.gatherMode THEN <<CallGather(SiteUrl), CallSave>>
  ELSE <<CallGather(SiteUrl)>>

InitSettings ==
  /\ settings \in {s \in SettingsPool : s.auditMode \/ ~s.gatherMode}
  /\ url = IF AnalyzeOnly THEN UrlUndefined ELSE UrlString(SiteUrl)
  /\ config = [audits |-> Some(<<>>), passes |-> TRUE]
  /\ artifacts \in
       { Some([DOM |-> ArtValue(FALSE), traces |-> ArtValue(TRUE),
               URL |-> [requestedUrl |-> SiteUrl, finalUrl |-> SiteUrl],
               settings |-> Some(e)]) : e \in SettingsPool }
  /\ disk = IF settings.gatherMode \/ AnalyzeOnly THEN artifacts ELSE None
  /\ pc = "gathered"
  /\ requestedUrl = SiteUrl
  /\ auditResults = <<>>
  /\ err = NoError
  /\ returned = [kind |-> "pending"]
  /\ calls = GatherPhaseCalls(settings)
  /\ lighthouseRunWarnings = <<>>
  /\ computedCache = {}
  /\ running = {}
  /\ history = <<>>

NextSettings ==
  \/ EnterAuditPhase
  \/ Catch

SpecSettings == InitSettings /\ [][NextSettings]_vars

\* The fields that may differ between a collection and a later analysis.
PerInvocationFields == {"locale", "gatherMode", "auditMode", "output", "budgets"}

GatherSettings == Get(Get(artifacts).settings)

DifferingFields == {f \in DOMAIN settings : GatherSettings[f] # settings[f]}

\* C11: with settings embedded in the artifacts, the audit phase fails with
\* 'Cannot change settings between gathering and auditing' exactly when the
\* embedded and the current settings differ in a field other than locale,
\* gatherMode, auditMode, output and budgets.
Thm_C11 ==
  pc # "gathered" =>
    /\ FailedWith(MsgSettingsChanged) <=> DifferingFields \ PerInvocationFields # {}
    /\ ~FailedWith(MsgSettingsChanged) => pc = "auditing"

Wit_C11 ==
  /\ pc = "auditing"
  /\ DifferingFields = PerInvocationFields

-----------------------------------------------------------------------------
(* Telemetry that fails: the same run, where a call to Sentry may throw     *)
(* (or, where it is awaited, reject).                                        *)

MsgTelemetryFailed == <<"Sentry transport failed">>

CallSentryFailed(level, tag) ==
  [op |-> "Sentry.captureException", level |-> level, tag |-> tag, failed |-> TRUE]
CallBreadcrumbFailed == [op |-> "Sentry.captureBreadcrumb", failed |-> TRUE]

\* Sentry.captureBreadcrumb({message: 'Run started', ...}) throws: it is
\* called inside the try block of Runner.run.
CaptureBreadcrumbThrows ==
  /\ pc = "start"
  /\ calls' = Append(calls, CallBreadcrumbFailed)
  /\ Throw(Error(MsgTelemetryFailed))
  /\ UNCHANGED <<contextVars, settings, url, config, disk, artifacts, requestedUrl,
                 auditResults, returned>>

\* Sentry.captureException(artifactError, ...) throws inside the try block of
\* _runAudit: the catch block of _runAudit gets the telemetry error.
ArtifactErrorReportThrows ==
  /\ pc = "auditing"
  /\ Len(auditResults) < Len(Get(config.audits))
  /\ LET auditDefn == NextAudit
         check == RequiredArtifactsCheck(auditDefn.requiredArtifacts, Get(artifacts))
     IN /\ check.threw
        /\ check.calls # <<>>
        /\ LET c == AuditCatch(auditDefn, Error(MsgTelemetryFailed))
           IN /\ calls' = calls \o <<CallSentryFailed("error", check.calls[1].tag)>> \o c.calls
              /\ auditResults' = Append(auditResults, c.result)
  /\ UNCHANGED <<contextVars, settings, url, config, disk, pc, artifacts, requestedUrl,
                 err, returned>>

\* Sentry.captureException(err, {tags: {audit}, ...}) throws inside the catch
\* block of _runAudit: nothing catches it before the catch of Runner.run.
AuditCatchReportThrows ==
  /\ pc = "auditing"
  /\ Len(auditResults) < Len(Get(config.audits))
  /\ LET auditDefn == NextAudit
         req == auditDefn.requiredArtifacts
         check == RequiredArtifactsCheck(req, Get(artifacts))
         view == RequiredArtifactsView(req, Get(artifacts))
     IN IF check.threw
        THEN calls' = calls \o check.calls \o <<CallSentryFailed("error", auditDefn.id)>>
        ELSE \E e \in AuditOutcomes \ {NoError} :
               calls' = calls \o <<CallAudit(auditDefn.id, view, e),
                                   CallSentryFailed("error", auditDefn.id)>>
  /\ Throw(Error(MsgTelemetryFailed))
  /\ UNCHANGED <<contextVars, settings, url, config, disk, artifacts, requestedUrl,
                 auditResults, returned>>

\* await Sentry.captureException(err, {level: 'fatal'}) rejects or throws in
\* the catch block of Runner.run: `throw err` is not reached.
CatchReportFails ==
  /\ pc = "catch"
  /\ calls' = Append(calls, CallSentryFailed("fatal", "run"))
  /\ returned' = [kind |-> "raised", error |-> Error(MsgTelemetryFailed)]
  /\ pc' = "raised"
  /\ UNCHANGED <<contextVars, settings, url, config, disk, artifacts, requestedUrl,
                 auditResults, err>>

NextTelemetry ==
  \/ LoadArtifacts
  \/ GatherArtifactsFromBrowser
  \/ SaveArtifacts
  \/ QuitEarly
  \/ EnterAuditPhase
  \/ RunAudit
  \/ EndRunAudits
  \/ Assemble
  \/ Catch
  \/ CaptureBreadcrumbThrows
  \/ ArtifactErrorReportThrows
  \/ AuditCatchReportThrows
  \/ CatchReportFails

SpecTelemetry == Init /\ [][NextTelemetry]_vars

\* C12, as claimed: a failing telemetry call leaves the outcome of the run as
\* it is without the failure: the error of the telemetry is neither the error
\* the run raises nor the message of an audit result.
Orig_C12 ==
  /\ \A i \in 1..Len(auditResults) : auditResults[i].errorMessage # MsgTelemetryFailed
  /\ pc = "catch" => err.message # MsgTelemetryFailed
  /\ returned.kind = "raised" => returned.error = err

-----------------------------------------------------------------------------
(* Runner.getArtifactRuntimeError, on its own: the artifacts are the list of *)
(* the object's own entries in iteration order.                              *)

ErrorCodes == {"NO_FCP", "PAGE_HUNG"}

\* new LHError(...): lhrRuntimeError is the flag that promotes it
LHErrors ==
  { [kind |-> "LHError", code |-> c, lhrRuntimeError |-> p, message |-> <<c>>,
     friendlyMessage |-> f] :
      c \in ErrorCodes, p \in BOOLEAN, f \in {<<>>, <<"The page did not load">>} }

ArtifactValues ==
  {[kind |-> "value"], [kind |-> "null"], [kind |-> "Error", message |-> <<"boom">>]}
    \cup LHErrors

ArtifactKeys == {"PageLoadError", "ViewportDimensions", "devtoolsLogs"}

\* an artifacts object: distinct keys in insertion order, each with a value
ArtifactObjects ==
  UNION { { [i \in 1..Len(ks) |-> [name |-> ks[i], value |-> vs[i]]] :
              vs \in [1..Len(ks) -> ArtifactValues] } :
          ks \in DistinctSeqs(ArtifactKeys, Cardinality(ArtifactKeys)) }

\* artifacts[name]
Property(arts, name) ==
  IF \E i \in 1..Len(arts) : arts[i].name = name
  THEN arts[CHOOSE i \in 1..Len(arts) : arts[i].name = name].value
  ELSE [kind |-> "undefined"]

\* Object.values(artifacts)
ObjectValues(arts) == [i \in 1..Len(arts) |-> arts[i].value]

PossibleErrorArtifacts_ValuesOnly(arts) == ObjectValues(arts)

\* [artifacts.PageLoadError, ...Object.values(artifacts)]
PossibleErrorArtifacts(arts) == <<Property(arts, "PageLoadError")>> \o ObjectValues(arts)

\* possibleErrorArtifact instanceof LHError && possibleErrorArtifact.lhrRuntimeError
IsRuntimeError(v) == v.kind = "LHError" /\ v.lhrRuntimeError

\* possibleErrorArtifact.friendlyMessage || possibleErrorArtifact.message
RuntimeErrorMessage(v) == IF v.friendlyMessage # <<>> THEN v.friendlyMessage ELSE v.message

RuntimeErrorOf(v) == [code |-> v.code, message |-> RuntimeErrorMessage(v)]

GetArtifactRuntimeError(arts) ==
  LET possible == PossibleErrorArtifacts(arts)
      found == {i \in 1..Len(possible) : IsRuntimeError(possible[i])}
  IN IF found = {}
     THEN None
     ELSE Some(RuntimeErrorOf(possible[CHOOSE i \in found : \A j \in found : i <= j]))

InitRuntimeError ==
  /\ artifacts \in ArtifactObjects
  /\ pc = "start"
  /\ returned = [kind |-> "pending"]
  /\ settings = BaseSettings(FALSE, TRUE)
  /\ url = UrlUndefined
  /\ config = [audits |-> None, passes |-> FALSE]
  /\ disk = None
  /\ requestedUrl = None
  /\ auditResults = <<>>
  /\ err = NoError
  /\ calls = <<>>
  /\ lighthouseRunWarnings = <<>>
  /\ computedCache = {}
  /\ running = {}
  /\ history = <<>>

CallGetArtifactRuntimeError ==
  /\ pc = "start"
  /\ returned' = [kind |-> "returned", value |-> GetArtifactRuntimeError(artifacts)]
  /\ pc' = "done"
  /\ UNCHANGED <<contextVars, settings, url, config, disk, artifacts, requestedUrl,
                 auditResults, err, calls>>

NextRuntimeError == CallGetArtifactRuntimeError

SpecRuntimeError == InitRuntimeError /\ [][NextRuntimeError]_vars

PageLoadError == Property(artifacts, "PageLoadError")
Promotable == {i \in 1..Len(artifacts) : IsRuntimeError(artifacts[i].value)}
FirstPromotable == artifacts[CHOOSE i \in Promotable : \A j \in Promotable : i <= j].value

\* C13: getArtifactRuntimeError returns at most one {code, message}: that of
\* PageLoadError when it is a promotable marker, whatever the other artifacts
\* and the key order; else that of the first promotable marker in iteration
\* order; else nothing. The message is the marker's friendly message when it
\* has one, else its message.
Thm_C13 ==
  pc = "done" =>
    /\ IsRuntimeError(PageLoadError) =>
         returned.value = Some(RuntimeErrorOf(PageLoadError))
    /\ ~IsRuntimeError(PageLoadError) /\ Promotable # {} =>
         returned.value = Some(RuntimeErrorOf(FirstPromotable))
    /\ Promotable = {} => returned.value = None

\* PageLoadError is promotable, is the last key, and an earlier artifact
\* carries a promotable marker with another code.
Wit_C13 ==
  /\ pc = "done"
  /\ Len(artifacts) = 3
  /\ artifacts[3].name = "PageLoadError"
  /\ IsRuntimeError(PageLoadError)
  /\ IsRuntimeError(artifacts[1].value)
  /\ artifacts[1].value.code # PageLoadError.code
  /\ returned.value = Some(RuntimeErrorOf(PageLoadError))

-----------------------------------------------------------------------------
(* Runner._getTiming, on its own. Times are in thousandths of a millisecond, *)
(* so that toFixed(2) has something to round.                                *)

MaxEntries == 2

TimingEntry(t, v) ==
  [startTime |-> t, name |-> v.name, duration |-> v.duration, entryType |-> v.entryType]

\* 1000 and 1004 are different timestamps with the same two decimals
TimingEntries ==
  { TimingEntry(t, v) :
      t \in {1000, 1004, 1010},
      v \in { [name |-> "lh:runner:run", duration |-> 2004, entryType |-> "measure"],
              [name |-> "lh:gather:loadPage", duration |-> 512, entryType |-> "mark"] } }

RECURSIVE SeqsUpTo(_, _)
SeqsUpTo(S, n) ==
  IF n = 0 THEN {<<>>}
  ELSE LET shorter == SeqsUpTo(S, n - 1)
       IN shorter \cup {Append(s, x) : s \in {y \in shorter : Len(y) = n - 1}, x \in S}

EntryLists == SeqsUpTo(TimingEntries, MaxEntries)

MapSet_KeepFirst(m, k, v) ==
  IF \E i \in 1..Len(m) : m[i].key = k THEN m ELSE Append(m, [key |-> k, value |-> v])

MapSet_Append(m, k, v) == Append(m, [key |-> k, value |-> v])

\* Map.prototype.set: a key keeps the position of its first insertion and
\* takes the last value
MapSet(m, k, v) ==
  IF \E i \in 1..Len(m) : m[i].key = k
  THEN [i \in 1..Len(m) |-> IF m[i].key = k THEN [key |-> k, value |-> v] ELSE m[i]]
  ELSE Append(m, [key |-> k, value |-> v])

\* new Map(keyValues)
RECURSIVE NewMap(_)
NewMap(kvs) ==
  IF kvs = <<>> THEN <<>>
  ELSE LET last == kvs[Len(kvs)]
       IN MapSet(NewMap(SubSeq(kvs, 1, Len(kvs) - 1)), last[1], last[2])

\* Array.from(map.values())
MapValues(m) == [i \in 1..Len(m) |-> m[i].value]

\* parseFloat(x.toFixed(2)), x in thousandths
ToFixed2(x) == ((x + 5) \div 10) * 10

TruncatedEntry(entry) ==
  [startTime |-> ToFixed2(entry.startTime), name |-> entry.name,
   duration |-> ToFixed2(entry.duration), entryType |-> entry.entryType]

\* runnerEntry && runnerEntry.duration || 0
TimingTotal(timingEntries) ==
  LET found == {i \in 1..Len(timingEntries) : timingEntries[i].name = "lh:runner:run"}
  IN IF found = {} THEN 0
     ELSE timingEntries[CHOOSE i \in found : \A j \in found : i <= j].duration

GetTiming(arts, timingEntriesFromRunner) ==
  LET timingEntriesFromArtifacts == IF arts.Timing = None THEN <<>> ELSE Get(arts.Timing)
      all == timingEntriesFromArtifacts \o timingEntriesFromRunner
      timingEntriesKeyValues == [i \in 1..Len(all) |-> <<all[i].startTime, all[i]>>]
      values == MapValues(NewMap(timingEntriesKeyValues))
      timingEntries == [i \in 1..Len(values) |-> TruncatedEntry(values[i])]
  IN [entries |-> timingEntries, total |-> TimingTotal(timingEntries)]

CallTakeTimeEntries(entries) == [op |-> "log.takeTimeEntries", entries |-> entries]

InitTiming ==
  /\ artifacts \in [Timing : {None} \cup {Some(l) : l \in EntryLists}]
  /\ pc = "start"
  /\ returned = [kind |-> "pending"]
  /\ settings = BaseSettings(TRUE, TRUE)
  /\ url = UrlString(SiteUrl)
  /\ config = [audits |-> Some(<<>>), passes |-> TRUE]
  /\ disk = None
  /\ requestedUrl = None
  /\ auditResults = <<>>
  /\ err = NoError
  /\ calls = <<>>
  /\ lighthouseRunWarnings = <<>>
  /\ computedCache = {}
  /\ running = {}
  /\ history = <<>>

CallGetTiming ==
  /\ pc = "start"
  /\ \E timingEntriesFromRunner \in EntryLists :
       /\ calls' = Append(calls, CallTakeTimeEntries(timingEntriesFromRunner))
       /\ returned' = [kind |-> "returned",
                       value |-> GetTiming(artifacts, timingEntriesFromRunner)]
  /\ pc' = "done"
  /\ UNCHANGED <<contextVars, settings, url, config, disk, artifacts, requestedUrl,
                 auditResults, err>>

NextTiming == CallGetTiming

SpecTiming == InitTiming /\ [][NextTiming]_vars

\* the input of _getTiming: the artifact entries, then the runner's
TimingInput ==
  (IF artifacts.Timing = None THEN <<>> ELSE Get(artifacts.Timing)) \o calls[1].entries
TimingOutput == returned.value.entries

\* the distinct start times of the input, in the order of their first entry
FirstOfStartTime ==
  {i \in 1..Len(TimingInput) :
     \A j \in 1..(i - 1) : TimingInput[j].startTime # TimingInput[i].startTime}
StartTimeOf(k) ==
  TimingInput[CHOOSE i \in FirstOfStartTime :
                Cardinality({j \in FirstOfStartTime : j <= i}) = k].startTime
LastWith(t) ==
  TimingInput[CHOOSE i \in 1..Len(TimingInput) :
                /\ TimingInput[i].startTime = t
                /\ \A j \in (i + 1)..Len(TimingInput) : TimingInput[j].startTime # t]

\* C14: over the artifact entries followed by the runner's, the entries of
\* one start time yield a single output entry, which carries the name, the
\* duration (to two decimals) and the entryType of the last of them.
Thm_C14 ==
  pc = "done" =>
    /\ Len(TimingOutput) = Cardinality(FirstOfStartTime)
    /\ \A k \in 1..Len(TimingOutput) :
         LET last == LastWith(StartTimeOf(k))
         IN /\ TimingOutput[k].name = last.name
            /\ TimingOutput[k].duration = ToFixed2(last.duration)
            /\ TimingOutput[k].entryType = last.entryType

\* an artifact entry and a later runner entry have the same start time and
\* differ in name, duration and entryType
Wit_C14 ==
  /\ pc = "done"
  /\ artifacts.Timing # None
  /\ \E i \in 1..Len(Get(artifacts.Timing)), j \in 1..Len(calls[1].entries) :
       LET a == Get(artifacts.Timing)[i]
           r == calls[1].entries[j]
       IN /\ a.startTime = r.startTime
          /\ a.name # r.name
          /\ j = Len(calls[1].entries)
          /\ \E k \in 1..Len(TimingOutput) :
               /\ TimingOutput[k].startTime = ToFixed2(r.startTime)
               /\ TimingOutput[k].name = r.name
  /\ Len(TimingOutput) < Len(TimingInput)

\* C20, as claimed: no two entries of the timing summary have the same
\* startTime.
Orig_C20 ==
  pc = "done" =>
    \A k, l \in 1..Len(TimingOutput) :
      k # l => TimingOutput[k].startTime # TimingOutput[l].startTime

\* C20, amended: the summary has one entry for each distinct start time of
\* the input, in the order of first occurrence, and its startTime is that
\* start time to two decimals; entries are told apart before the rounding.
Thm_C20 ==
  pc = "done" =>
    /\ Len(TimingOutput) = Cardinality(FirstOfStartTime)
    /\ \A k \in 1..Len(TimingOutput) :
         TimingOutput[k].startTime = ToFixed2(StartTimeOf(k))

\* two entries of the summary have the same startTime
Wit_C20 ==
  /\ pc = "done"
  /\ \E k, l \in 1..Len(TimingOutput) :
       k # l /\ TimingOutput[k].startTime = TimingOutput[l].startTime

-----------------------------------------------------------------------------
(* A session: the analyze-only path run again and again on the same          *)
(* persisted artifacts, with audits whose scoring logic is deterministic,    *)
(* reads the shared context and may write to it. The scoring logic is        *)
(* asynchronous: it is invoked in one step and settles in another.           *)

MaxRuns == 2

SessionAudit(id, req, impl) == [id |-> id, requiredArtifacts |-> req, implementation |-> impl]

\* "warns" pushes a warning to context.LighthouseRunWarnings, "computes"
\* requests a computed artifact and so writes to context.computedCache,
\* "throws" throws; each one that returns a product reports what it has read.
SessionAuditPool ==
  { SessionAudit("redirects", <<>>, "warns"),
    SessionAudit("network-requests", <<"DOM">>, "computes"),
    SessionAudit("first-paint", <<"traces">>, "plain"),
    SessionAudit("broken-audit", <<>>, "throws") }

SessionAuditLists == DistinctSeqs(SessionAuditPool, MaxAudits)

SessionArtifacts ==
  { [DOM |-> d, traces |-> t, URL |-> [requestedUrl |-> SiteUrl, finalUrl |-> SiteUrl],
     settings |-> e, LighthouseRunWarnings |-> w] :
      d \in DomValues, t \in {ArtValue(TRUE), ArtUndefined},
      e \in {None, Some(BaseSettings(FALSE, TRUE))},
      w \in {<<>>, <<"The host is slow">>} }

ComputedArtifact == "NetworkRecords"

\* const lighthouseRunWarnings = [];
FreshRunWarnings_Leftover == lighthouseRunWarnings
FreshRunWarnings == <<>>

\* what the scoring logic can read of its context: {options, ...sharedAuditContext}
AuditContext ==
  [LighthouseRunWarnings |-> lighthouseRunWarnings, computedCache |-> computedCache]

\* the product of a deterministic scoring logic: a function of what it is given
AuditProduct(view, context) ==
  [view |-> view, warnings |-> context.LighthouseRunWarnings,
   cache |-> context.computedCache]

ImplementationError(auditDefn) ==
  IF auditDefn.implementation = "throws" THEN Error(<<"audit failed">>) ELSE NoError

InitSession ==
  /\ settings = BaseSettings(FALSE, TRUE)
  /\ url = UrlUndefined
  /\ config \in [audits : {Some(l) : l \in SessionAuditLists}, passes : {FALSE}]
  /\ disk \in {Some(a) : a \in SessionArtifacts}
  /\ pc = "start"
  /\ artifacts = None
  /\ requestedUrl = <<>>
  /\ auditResults = <<>>
  /\ err = NoError
  /\ returned = [kind |-> "pending"]
  /\ calls = <<>>
  /\ lighthouseRunWarnings = <<>>
  /\ computedCache = {}
  /\ running = {}
  /\ history = <<>>

\* A loop that goes on to the next audit without waiting.
AwaitsPrevious_No == TRUE

\* const auditResult = await Runner._runAudit(...): the loop is suspended
\* while a scoring logic is in progress
AwaitsPrevious == running = {}

\* the audits the loop has gone through so far
Started == Len(auditResults) + Cardinality(running)

\* Runner._runAudit up to the call of audit.audit; when a required artifact
\* is missing or errored, up to its end and to the push of the result.
InvokeAudit ==
  /\ pc = "auditing"
  /\ AwaitsPrevious
  /\ Started < Len(Get(config.audits))
  /\ LET auditDefn == Get(config.audits)[Started + 1]
         req == auditDefn.requiredArtifacts
         check == RequiredArtifactsCheck(req, Get(artifacts))
         view == RequiredArtifactsView(req, Get(artifacts))
     IN IF check.threw
        THEN LET c == AuditCatch(auditDefn, check.error)
             IN /\ calls' = calls \o check.calls \o c.calls
                /\ auditResults' = Append(auditResults, c.result)
                /\ UNCHANGED running
        ELSE /\ calls' = Append(calls, CallAudit(auditDefn.id, view,
                                                 ImplementationError(auditDefn)))
             /\ running' = running \cup
                  {[index |-> Started + 1, product |-> AuditProduct(view, AuditContext)]}
             /\ UNCHANGED auditResults
  /\ UNCHANGED <<lighthouseRunWarnings, computedCache, history, settings, url, config, disk,
                 pc, artifacts, requestedUrl, err, returned>>

\* The promise of audit.audit settles: the result is generated (or the catch
\* block makes an error result) and pushed.
AuditSettles ==
  /\ pc = "auditing"
  /\ \E r \in running :
       LET auditDefn == Get(config.audits)[r.index]
           e == ImplementationError(auditDefn)
       IN /\ running' = running \ {r}
          /\ IF e = NoError
             THEN /\ auditResults' =
                       Append(auditResults, GenerateAuditResult(auditDefn, r.product))
                  /\ UNCHANGED calls
             ELSE LET c == AuditCatch(auditDefn, e)
                  IN /\ calls' = calls \o c.calls
                     /\ auditResults' = Append(auditResults, c.result)
          /\ lighthouseRunWarnings' =
               IF auditDefn.implementation = "warns"
               THEN Append(lighthouseRunWarnings, auditDefn.id)
               ELSE lighthouseRunWarnings
          /\ computedCache' =
               IF auditDefn.implementation = "computes"
               THEN computedCache \cup {ComputedArtifact}
               ELSE computedCache
  /\ UNCHANGED <<history, settings, url, config, disk, pc, artifacts, requestedUrl, err,
                 returned>>

\* Runner.run is called again, with the same options.
NextRun ==
  /\ pc \in {"returned", "raised"}
  /\ Len(history) + 1 < MaxRuns
  /\ history' = Append(history, [auditResults |-> auditResults, returned |-> returned])
  /\ pc' = "start"
  /\ artifacts' = None
  /\ requestedUrl' = <<>>
  /\ auditResults' = <<>>
  /\ err' = NoError
  /\ returned' = [kind |-> "pending"]
  /\ calls' = <<>>
  /\ lighthouseRunWarnings' = FreshRunWarnings
  /\ running' = {}
  /\ UNCHANGED <<computedCache, settings, url, config, disk>>

NextSession ==
  \/ LoadArtifacts
  \/ EnterAuditPhase
  \/ InvokeAudit
  \/ AuditSettles
  \/ EndRunAudits
  \/ Assemble
  \/ Catch
  \/ NextRun

SpecSession == InitSession /\ [][NextSession]_vars

\* the audits before position j whose scoring logic returned a product
ScoredBefore(j, impl) ==
  {i \in 1..(j - 1) :
     auditResults[i].kind = "scored" /\ Audits[i].implementation = impl}

\* the warnings pushed by the audits before position j, in order
RECURSIVE WarningsBefore(_)
WarningsBefore(j) ==
  IF j <= 1 THEN <<>>
  ELSE IF auditResults[j - 1].kind = "scored" /\ Audits[j - 1].implementation = "warns"
       THEN Append(WarningsBefore(j - 1), Audits[j - 1].id)
       ELSE WarningsBefore(j - 1)

\* C15: in a run, every audit gets the same computedCache and the same list
\* of run warnings: what an audit reads of them is exactly what the earlier
\* audits of this run have written, so nothing of a cache of an earlier run;
\* and the warnings of the audits are in the runWarnings of the result.
Thm_C15 ==
  /\ \A j \in 1..Len(auditResults) :
       auditResults[j].kind = "scored" =>
         /\ auditResults[j].details.warnings = WarningsBefore(j)
         /\ auditResults[j].details.cache =
              IF ScoredBefore(j, "computes") # {} THEN {ComputedArtifact} ELSE {}
  /\ pc = "returned" =>
       \A i \in 1..Len(auditResults) :
         auditResults[i].kind = "scored" /\ Audits[i].implementation = "warns" =>
           Audits[i].id \in Range(returned.lhr.runWarnings)

\* a second run, after a run whose audit filled the cache: its first audit
\* finds the cache empty, fills it, and its second audit finds the entry
Wit_C15 ==
  /\ history # <<>>
  /\ Len(history[1].auditResults) = 2
  /\ history[1].auditResults[1].kind = "scored"
  /\ pc = "returned"
  /\ Len(auditResults) = 2
  /\ Audits[1].implementation = "computes"
  /\ auditResults[1].kind = "scored"
  /\ auditResults[1].details.cache = {}
  /\ auditResults[2].kind = "scored"
  /\ auditResults[2].details.cache = {ComputedArtifact}

\* C16: a second analyze-only run on the same persisted artifacts, with the
\* same settings and audits, gives the list of audit results the first gave.
Thm_C16 ==
  \A h \in 1..Len(history) :
    /\ pc \in {"assembling", "returned"}
    /\ history[h].returned.kind = "result"
    => auditResults = history[h].auditResults

\* both runs returned a result, and their audits read and wrote the context
Wit_C16 ==
  /\ history # <<>>
  /\ history[1].returned.kind = "result"
  /\ pc = "returned"
  /\ Len(auditResults) = 2
  /\ Audits[1].implementation = "warns"
  /\ auditResults[2].kind = "scored"
  /\ auditResults[2].details.warnings # <<>>
  /\ auditResults = history[1].auditResults

\* every required artifact of the audit is there and is no error
RequiredUsable(a) ==
  /\ ~RequiredMissing(a)
  /\ \A n \in Range(a.requiredArtifacts) : Artifact(n).kind # "error"

\* the position of the audit with this id in config.audits
PositionOf(id) == CHOOSE i \in 1..Len(Audits) : Audits[i].id = id

\* C17: at most one scoring logic is in progress; the one in progress is that
\* of the audit after the last result; the scoring logics are invoked in
\* configured order, each one at most once in a run, and once the loop is
\* over exactly once for an audit whose required artifacts are all usable.
Thm_C17 ==
  pc \in {"auditing", "assembling", "returned"} =>
    /\ Cardinality(running) <= 1
    /\ \A r \in running : r.index = Len(auditResults) + 1
    /\ \A i \in 1..Len(Audits) : Cardinality(AuditCallsOf(Audits[i].id)) <= 1
    /\ \A k, l \in AuditCalls :
         k < l => PositionOf(calls[k].audit) < PositionOf(calls[l].audit)
    /\ pc \in {"assembling", "returned"} =>
         \A i \in 1..Len(Audits) :
           Cardinality(AuditCallsOf(Audits[i].id)) = 1 <=> RequiredUsable(Audits[i])

\* the second scoring logic is in progress, after the result of the first
Wit_C17 ==
  /\ pc = "auditing"
  /\ Len(auditResults) = 1
  /\ auditResults[1].kind = "scored"
  /\ \E r \in running : r.index = 2
  /\ Cardinality(AuditCalls) = 2

-----------------------------------------------------------------------------
(* The side effects of the gather phase, read off the log of calls *)

LoadCalls == CallsOf("assetSaver.loadArtifacts")
GatherCalls == CallsOf("GatherRunner.run")
SaveCalls == CallsOf("assetSaver.saveArtifacts")

\* the calls that belong to the audit phase
AuditPhaseCalls == CallsOf("log.time") \cup CallsOf("isDeepEqual") \cup AuditCalls

\* C18: the artifacts are loaded iff auditMode is on and gatherMode off, and
\* then the driver is not invoked and nothing is saved; in the other modes the
\* driver is invoked only for a valid input URL, with its canonical form, and
\* what it collected is saved iff gatherMode is on, once, after the collection
\* and before anything of the audit phase.
Thm_C18 ==
  /\ pc # "start" => (LoadCalls # {} <=> AnalyzeOnly)
  /\ AnalyzeOnly => GatherCalls = {} /\ SaveCalls = {}
  /\ ~AnalyzeOnly =>
       /\ LoadCalls = {}
       /\ Cardinality(GatherCalls) <= 1
       /\ \A g \in GatherCalls :
            ValidUrl /\ calls[g].requestedUrl = Canonical(url.s)
       /\ Cardinality(SaveCalls) <= 1
       /\ SaveCalls # {} => settings.gatherMode
       /\ \A k \in SaveCalls :
            /\ \E g \in GatherCalls : g < k
            /\ \A a \in AuditPhaseCalls : k < a
       /\ (artifacts # None /\ pc # "collected" /\ settings.gatherMode) => SaveCalls # {}
       /\ (pc \in {"gathered", "auditing", "assembling", "returned"} /\ settings.gatherMode)
            => disk = artifacts

\* both modes on: collected, saved, and the first audit has run
Wit_C18 ==
  /\ settings.gatherMode
  /\ settings.auditMode
  /\ pc = "auditing"
  /\ Len(auditResults) = 1
  /\ AuditCalls # {}
  /\ SaveCalls # {}
  /\ disk = artifacts

\* C19: a run fails with 'No audits to evaluate.' or with the settings error
\* only after its gather phase: the artifacts are there, and when gatherMode
\* and auditMode are both on the driver has been invoked and the artifacts
\* have been saved.
Thm_C19 ==
  (FailedWith(MsgNoAudits) \/ FailedWith(MsgSettingsChanged)) =>
    /\ artifacts # None
    /\ LoadCalls \cup GatherCalls # {}
    /\ (settings.gatherMode /\ settings.auditMode) =>
         /\ GatherCalls # {}
         /\ SaveCalls # {}
         /\ disk = artifacts

\* both modes on, no audits configured: the run has raised and the artifacts
\* are on disk
Wit_C19 ==
  /\ settings.gatherMode
  /\ settings.auditMode
  /\ pc = "raised"
  /\ err.message = MsgNoAudits
  /\ disk # None
  /\ disk = artifacts

====
